---- MODULE Spec2Model ----
(***************************************************************************)
(* JapaneseStudy: the quiz session, the mistake review session and the two *)
(* file-backed stores (data/mistakes.csv, data/user_progress.csv).         *)
(*                                                                         *)
(* The program is single-threaded; it blocks on input() between steps.     *)
(* Every action below is the code that runs between two reads of the       *)
(* keyboard.  pc names the input() call the program is blocked on.         *)
(***************************************************************************)
EXTENDS Integers, Sequences, FiniteSets, TLC

(***************************************************************************)
(* Bounds of the model (not program constants).                            *)
(***************************************************************************)
\* the wall clock, in seconds, is observed in 0..MaxTime; every menu action
\* (a session, a reset) starts at least one second after the previous one
MaxTime == 2
\* direct calls of the store operations in SpecStore
MaxCalls == 3
\* longest candidate pool handed to generate_question in SpecQuestion
MaxPool == 5

(***************************************************************************)
(* Program constants.                                                      *)
(***************************************************************************)
\* random.sample(all_vocabs, 10)
QUIZ_LEN == 10
\* wrong_options[-3:]
NUM_DISTRACTORS == 3

LEVELS == <<"N5", "N4", "N3", "N2", "N1">>

LevelSet == {LEVELS[i] : i \in 1..Len(LEVELS)}

(***************************************************************************)
(* Content Store.  The data files are not part of the sources; the pools   *)
(* below are one possible content: N5 has twelve entries (so a 10-item     *)
(* sample leaves two out) over four meanings, three of which are shared by *)
(* several entries (the loader does not deduplicate meanings); N4 is too   *)
(* short for a quiz; the other levels are empty.  Kanji are unique within  *)
(* a level.                                                                *)
(***************************************************************************)
Vocab(kanji, kana, meaning) == [Kanji |-> kanji, Kana |-> kana, Meaning |-> meaning]

N5_VOCAB ==
    << Vocab("k1", "a1", "m1"),  Vocab("k2", "a2", "m2"),  Vocab("k3", "a3", "m3"),
       Vocab("k4", "a4", "m1"),  Vocab("k5", "a5", "m2"),  Vocab("k6", "a6", "m3"),
       Vocab("k7", "a7", "m1"),  Vocab("k8", "a8", "m2"),  Vocab("k9", "a9", "m3"),
       Vocab("k10", "a10", "m1"), Vocab("k11", "a11", "m2"), Vocab("k12", "a12", "m4") >>

N4_VOCAB ==
    << Vocab("j1", "b1", "m1"), Vocab("j2", "b2", "m5"), Vocab("j3", "b3", "m5") >>

JLPT_DATA ==
    [N5 |-> N5_VOCAB, N4 |-> N4_VOCAB, N3 |-> <<>>, N2 |-> <<>>, N1 |-> <<>>]

\* data_loader.load_jlpt_vocab: the rows of the level's file, in file order
load_jlpt_vocab(lv) == IF lv \in LevelSet THEN JLPT_DATA[lv] ELSE <<>>

\* a row of data/characters.csv (columns Character, Correct Answer)
Character(character, reading) ==
    ("Character" :> character) @@ ("Correct Answer" :> reading)

\* eleven characters over four readings: a 10-item sample leaves one out,
\* and readings are shared (a hiragana and a katakana read alike)
CHARACTER_DATA ==
    << Character("c1", "r1"),  Character("c2", "r2"),  Character("c3", "r3"),
       Character("c4", "r1"),  Character("c5", "r2"),  Character("c6", "r3"),
       Character("c7", "r1"),  Character("c8", "r2"),  Character("c9", "r3"),
       Character("c10", "r4"), Character("c11", "r4") >>

\* data_loader.load_characters: the rows of the file, in file order
load_characters == CHARACTER_DATA

(***************************************************************************)
(* Sequence helpers.                                                       *)
(***************************************************************************)
Range(s) == {s[i] : i \in 1..Len(s)}

Min(a, b) == IF a < b THEN a ELSE b

RECURSIVE Concat(_)
Concat(ss) == IF ss = <<>> THEN <<>> ELSE Head(ss) \o Concat(Tail(ss))

\* the injective maps 1..k -> 1..n
Injections(k, n) ==
    {f \in [1..k -> 1..n] : \A i, j \in 1..k : i # j => f[i] # f[j]}

\* random.shuffle(s): every permutation of s is a possible outcome
\* (the permutations of 1..n are tabulated for the short lists)
PERMUTATIONS == [n \in 0..5 |-> Injections(n, n)]

shuffle(s) ==
    LET n == Len(s)
        perms == IF n \in DOMAIN PERMUTATIONS THEN PERMUTATIONS[n] ELSE Injections(n, n)
    IN  {[i \in 1..n |-> s[p[i]]] : p \in perms}

\* the outcomes of: random.shuffle(w); w[-3:]
\* (the last min(3, n) places of a permutation hold any arrangement of
\*  min(3, n) distinct positions of w)
shuffle_last(w, k) ==
    LET m == Min(k, Len(w))
    IN  {[i \in 1..m |-> w[f[i]]] : f \in Injections(m, Len(w))}

\* random.sample(pool, k): the injective k-sequences over pool.  The model
\* draws them from SAMPLE_ORDERS, a small set of index sequences.
SAMPLE_ORDERS ==
    { <<1, 2, 3, 4, 5, 6, 7, 8, 9, 10>>,
      <<3, 2, 1, 4, 5, 6, 7, 8, 9, 11>> }

sample(pool, k) ==
    {[i \in 1..k |-> pool[o[i]]] :
        o \in {x \in SAMPLE_ORDERS :
                  /\ Len(x) = k
                  /\ \A i \in 1..k : x[i] \in 1..Len(pool)
                  /\ \A i, j \in 1..k : i # j => x[i] # x[j]}}

(***************************************************************************)
(* Text conversions of the csv layer: mistake_count is written with str()  *)
(* and read back with int().  A decimal numeral is a sequence of digit     *)
(* characters.                                                             *)
(***************************************************************************)
DIGITS == <<"0", "1", "2", "3", "4", "5", "6", "7", "8", "9">>

\* mutant of str: only the last digit of the number is written
str_last_digit(n) == <<DIGITS[(n % 10) + 1]>>

RECURSIVE str(_)
str(n) == IF n < 10 THEN <<DIGITS[n + 1]>>
          ELSE Append(str(n \div 10), DIGITS[(n % 10) + 1])

DigitValue(c) == CHOOSE d \in 0..9 : DIGITS[d + 1] = c

RECURSIVE int(_)
int(s) == IF Len(s) = 1 THEN DigitValue(s[1])
          ELSE 10 * int(SubSeq(s, 1, Len(s) - 1)) + DigitValue(s[Len(s)])

\* datetime.now().strftime('%y-%m-%d %H:%M:%S'): the text of second t
strftime(t) == <<"date", str(t)>>

(***************************************************************************)
(* Mistake Store (mistake_tracker.py).  A file is the sequence of its data *)
(* rows (the header is fixed); every field of a row is text.               *)
(***************************************************************************)
\* load_mistakes: DictReader rows with mistake_count converted by int()
load_mistakes(file) ==
    [i \in 1..Len(file) |-> [file[i] EXCEPT !.mistake_count = int(@)]]

\* DictWriter.writerows: every non-text value is written with str()
write_mistakes(rows) ==
    [i \in 1..Len(rows) |-> [rows[i] EXCEPT !.mistake_count = str(@)]]

\* index of the first record with this word and kana, 0 when there is none
find_mistake(user_mistakes, word, kana) ==
    LET hits == {i \in 1..Len(user_mistakes) :
                    user_mistakes[i].word = word /\ user_mistakes[i].kana = kana}
    IN  IF hits = {} THEN 0 ELSE CHOOSE i \in hits : \A j \in hits : i <= j

\* mutant of add_mistake: an existing record keeps its old user_answer
add_mistake_keeps_answer(file, word, kana, correct_answer, user_answer, t) ==
    LET user_mistakes == load_mistakes(file)
        i == find_mistake(user_mistakes, word, kana)
        updated ==
            IF i # 0
            THEN [user_mistakes EXCEPT ![i] =
                    [@ EXCEPT !.correct_answer = correct_answer,
                              !.mistake_count = @ + 1,
                              !.last_mistake_date = strftime(t)]]
            ELSE Append(user_mistakes,
                    [word |-> word, kana |-> kana,
                     correct_answer |-> correct_answer,
                     user_answer |-> user_answer,
                     mistake_count |-> 1,
                     last_mistake_date |-> strftime(t)])
    IN  write_mistakes(updated)

\* mutant of add_mistake: the lookup is skipped, a record is always appended
add_mistake_always_appends(file, word, kana, correct_answer, user_answer, t) ==
    write_mistakes(Append(load_mistakes(file),
                    [word |-> word, kana |-> kana,
                     correct_answer |-> correct_answer,
                     user_answer |-> user_answer,
                     mistake_count |-> 1,
                     last_mistake_date |-> strftime(t)]))

\* add_mistake at second t: user_mistakes as handed to writerows, with
\* mistake_count still a number
add_mistake_rows(file, word, kana, correct_answer, user_answer, t) ==
    LET user_mistakes == load_mistakes(file)
        i == find_mistake(user_mistakes, word, kana)
    IN  IF i # 0
        THEN [user_mistakes EXCEPT ![i] =
                [@ EXCEPT !.correct_answer = correct_answer,
                          !.user_answer = user_answer,
                          !.mistake_count = @ + 1,
                          !.last_mistake_date = strftime(t)]]
        ELSE Append(user_mistakes,
                [word |-> word, kana |-> kana,
                 correct_answer |-> correct_answer,
                 user_answer |-> user_answer,
                 mistake_count |-> 1,
                 last_mistake_date |-> strftime(t)])

\* mutant of add_mistake: every record is stamped with the new date
add_mistake_dates_all(file, word, kana, correct_answer, user_answer, t) ==
    LET rows == add_mistake_rows(file, word, kana, correct_answer, user_answer, t)
    IN  write_mistakes([i \in 1..Len(rows) |->
                           [rows[i] EXCEPT !.last_mistake_date = strftime(t)]])

\* add_mistake at second t: the new content of the file
add_mistake(file, word, kana, correct_answer, user_answer, t) ==
    write_mistakes(add_mistake_rows(file, word, kana, correct_answer, user_answer, t))

\* remove_mistake: the new content of the file
remove_mistake(file, word) ==
    write_mistakes(SelectSeq(load_mistakes(file), LAMBDA m : m.word # word))

\* remove_mistake: the value returned.  The code compares the length of the
\* loaded list with old_mistake_count, which is the length of that same list.
remove_mistake_result(file, word) ==
    LET user_mistakes == load_mistakes(file)
        old_mistake_count == Len(user_mistakes)
    IN  Len(user_mistakes) < old_mistake_count

\* reset_mistakes: header only
reset_mistakes == <<>>

\* mutant of add_mistakes: the loop stops after the first mistake
add_mistakes_first_only(file, ms, t) ==
    IF ms = <<>> THEN file
    ELSE add_mistake(file, ms[1].word, ms[1].kana,
                     ms[1].correct_answer, ms[1].user_answer, t)

\* the loops "for mistake in ...: MISTAKE.add_mistake(word, kana, correct, user)"
RECURSIVE add_mistakes(_, _, _)
add_mistakes(file, ms, t) ==
    IF ms = <<>> THEN file
    ELSE add_mistakes(
            add_mistake(file, ms[1].word, ms[1].kana,
                        ms[1].correct_answer, ms[1].user_answer, t),
            Tail(ms), t)

(***************************************************************************)
(* Progress Store (progress_manager.py).  The file holds one row per       *)
(* level: the level code followed by the mastered kanji of a set, so the   *)
(* content is a set of kanji per level.                                    *)
(***************************************************************************)
create_progress_file == [lv \in LevelSet |-> {}]

\* load_mastered_vocabs: cells that are blank after strip() are skipped
load_mastered_vocabs(file) == [lv \in LevelSet |-> {v \in file[lv] : v # ""}]

\* mutant of add_mastered_vocab: the new set is never written back
add_mastered_vocab_not_saved(file, lv, kanji) == file

\* mutant of add_mastered_vocab: the level code of the row is taken for a
\* kanji as well
add_mastered_vocab_adds_level(file, lv, kanji) ==
    LET mastery == load_mastered_vocabs(file)
    IN  IF kanji \in mastery[lv] THEN file
        ELSE [mastery EXCEPT ![lv] = @ \cup {kanji, lv}]

\* mutant of add_mastered_vocab: the level's row is written with the new
\* kanji only
add_mastered_vocab_replaces_set(file, lv, kanji) ==
    LET mastery == load_mastered_vocabs(file)
    IN  IF kanji \in mastery[lv] THEN file
        ELSE [mastery EXCEPT ![lv] = {kanji}]

\* add_mastered_vocab: the new content of the file
add_mastered_vocab(file, lv, kanji) ==
    LET mastery == load_mastered_vocabs(file)
    IN  IF kanji \in mastery[lv] THEN file
        ELSE [mastery EXCEPT ![lv] = @ \cup {kanji}]

\* mutant of add_mastered_vocab_result: True whether or not it was added
add_mastered_vocab_result_always_true(file, lv, kanji) == TRUE

\* add_mastered_vocab: the value returned
add_mastered_vocab_result(file, lv, kanji) ==
    kanji \notin load_mastered_vocabs(file)[lv]

reset_progress == create_progress_file

(***************************************************************************)
(* Question Generator (quiz_manager.py).                                   *)
(***************************************************************************)
\* the distractor candidates: the option_type field of every entry of
\* all_content that differs from the correct answer, in pool order,
\* duplicates kept
\* mutant of wrong_options: entries equal to the correct answer are kept
wrong_options_keeps_correct(correct_answer, all_content, option_type) ==
    [i \in 1..Len(all_content) |-> all_content[i][option_type]]

wrong_options(correct_answer, all_content, option_type) ==
    LET answers == [i \in 1..Len(all_content) |-> all_content[i][option_type]]
    IN  SelectSeq(answers, LAMBDA m : m # correct_answer)

\* the option lists the two shuffles can produce for this correct answer
generate_options(correct_answer, all_content, option_type) ==
    UNION { shuffle(<<correct_answer>> \o d) :
              d \in shuffle_last(wrong_options(correct_answer, all_content,
                                               option_type),
                                 NUM_DISTRACTORS) }

\* the field that holds the answer: 'Meaning' for quiz_type 'jlpt',
\* 'Correct Answer' for quiz_type 'character'
option_type_of(quiz_type) ==
    IF quiz_type = "jlpt" THEN "Meaning" ELSE "Correct Answer"

\* generate_question(correct_content, all_content, quiz_type): the option
\* lists it can return
generate_question(correct_content, all_content, quiz_type) ==
    generate_options(correct_content[option_type_of(quiz_type)], all_content,
                     option_type_of(quiz_type))

\* options.index(correct_answer), 0-based; -1 stands for ValueError
get_correct_answer_index(options, correct_answer) ==
    LET hits == {i \in 1..Len(options) : options[i] = correct_answer}
    IN  IF hits = {} THEN -1
        ELSE (CHOOSE i \in hits : \A j \in hits : i <= j) - 1

\* ord(user_choice) - ord('A') for the accepted letters A, B, C, D
CHOICE_INDEXES == 0..3

\* the option lists of the pools the model meets, tabulated once
MEANINGS ==
    UNION {{JLPT_DATA[lv][i].Meaning : i \in 1..Len(JLPT_DATA[lv])} : lv \in LevelSet}

all_jlpt_vocab == Concat([i \in 1..Len(LEVELS) |-> load_jlpt_vocab(LEVELS[i])])

TABULATED_POOLS ==
    {all_jlpt_vocab} \cup {load_jlpt_vocab(lv) : lv \in LevelSet}
        \cup UNION {sample(load_jlpt_vocab(lv), QUIZ_LEN) : lv \in LevelSet}

OPTION_TABLE ==
    [pool \in TABULATED_POOLS |->
        [m \in MEANINGS |-> generate_options(m, pool, "Meaning")]]

READINGS == {CHARACTER_DATA[i]["Correct Answer"] : i \in 1..Len(CHARACTER_DATA)}

TABULATED_CHARACTER_POOLS ==
    {load_characters} \cup sample(load_characters, QUIZ_LEN)

CHARACTER_OPTION_TABLE ==
    [pool \in TABULATED_CHARACTER_POOLS |->
        [r \in READINGS |-> generate_options(r, pool, "Correct Answer")]]

\* the option lists of generate_question for this correct answer and pool
options_for(correct_answer, pool, option_type) ==
    IF option_type = "Meaning"
    THEN IF pool \in DOMAIN OPTION_TABLE /\ correct_answer \in MEANINGS
         THEN OPTION_TABLE[pool][correct_answer]
         ELSE generate_options(correct_answer, pool, option_type)
    ELSE IF pool \in DOMAIN CHARACTER_OPTION_TABLE /\ correct_answer \in READINGS
         THEN CHARACTER_OPTION_TABLE[pool][correct_answer]
         ELSE generate_options(correct_answer, pool, option_type)

(***************************************************************************)
(* Evaluation of an answer (run_jlpt_quiz, run_mistake_review).            *)
(***************************************************************************)
INDEX_ERROR == "IndexError"

\* run_jlpt_quiz: what an answer letter leads to, for one option list:
\* "correct", the wrong option chosen (options[choice_index]), or IndexError
\* when the letter is beyond the options presented
\* mutant of quiz_answer: a miss records the correct answer as the user's
quiz_answer_records_correct(options, correct_answer, choice_index) ==
    IF choice_index = get_correct_answer_index(options, correct_answer)
    THEN [correct |-> TRUE, user_answer |-> correct_answer]
    ELSE [correct |-> FALSE, user_answer |-> correct_answer]

quiz_answer(options, correct_answer, choice_index) ==
    IF choice_index = get_correct_answer_index(options, correct_answer)
    THEN [correct |-> TRUE, user_answer |-> correct_answer]
    ELSE IF choice_index >= Len(options)
         THEN [correct |-> FALSE, user_answer |-> INDEX_ERROR]
         ELSE [correct |-> FALSE, user_answer |-> options[choice_index + 1]]

\* every outcome of one quiz question over the shuffles and the four letters
quiz_outcomes_of(correct_answer, pool) ==
    {quiz_answer(options, correct_answer, choice_index) :
        options \in options_for(correct_answer, pool, "Meaning"),
        choice_index \in CHOICE_INDEXES}

\* the same, tabulated once for the pools the model meets
QUIZ_OUTCOME_TABLE ==
    [pool \in TABULATED_POOLS |-> [m \in MEANINGS |-> quiz_outcomes_of(m, pool)]]

quiz_outcomes(correct_answer, pool) ==
    IF pool \in DOMAIN QUIZ_OUTCOME_TABLE /\ correct_answer \in MEANINGS
    THEN QUIZ_OUTCOME_TABLE[pool][correct_answer]
    ELSE quiz_outcomes_of(correct_answer, pool)

\* run_mistake_review: choice_index == correct_index
review_answer(options, correct_answer, choice_index) ==
    choice_index = get_correct_answer_index(options, correct_answer)

review_outcomes_of(correct_answer, pool) ==
    {review_answer(options, correct_answer, choice_index) :
        options \in options_for(correct_answer, pool, "Meaning"),
        choice_index \in CHOICE_INDEXES}

REVIEW_OUTCOME_TABLE ==
    [pool \in TABULATED_POOLS |-> [m \in MEANINGS |-> review_outcomes_of(m, pool)]]

review_outcomes(correct_answer, pool) ==
    IF pool \in DOMAIN REVIEW_OUTCOME_TABLE /\ correct_answer \in MEANINGS
    THEN REVIEW_OUTCOME_TABLE[pool][correct_answer]
    ELSE review_outcomes_of(correct_answer, pool)

\* run_character_quiz: choice_index == correct_index
character_answer(options, correct_answer, choice_index) ==
    choice_index = get_correct_answer_index(options, correct_answer)

character_outcomes_of(correct_answer, pool) ==
    {character_answer(options, correct_answer, choice_index) :
        options \in options_for(correct_answer, pool, "Correct Answer"),
        choice_index \in CHOICE_INDEXES}

CHARACTER_OUTCOME_TABLE ==
    [pool \in TABULATED_CHARACTER_POOLS |->
        [r \in READINGS |-> character_outcomes_of(r, pool)]]

character_outcomes(correct_answer, pool) ==
    IF pool \in DOMAIN CHARACTER_OUTCOME_TABLE /\ correct_answer \in READINGS
    THEN CHARACTER_OUTCOME_TABLE[pool][correct_answer]
    ELSE character_outcomes_of(correct_answer, pool)

(***************************************************************************)
(* The user.  Every question accepts A, B, C, D and Q; the model lets the  *)
(* user miss or quit a quiz question only on the entries named by Fallible *)
(* (every other quiz question is answered correctly).                      *)
(***************************************************************************)
Fallible == {"k2", "k3"}

\* likewise for the questions of a character quiz
FallibleCharacters == {"c2"}

(***************************************************************************)
(* State.                                                                  *)
(***************************************************************************)
VARIABLES
    pc,                 \* the input() call the program is blocked on
    now,                \* the wall clock, in seconds
    mistake_file,       \* data rows of data/mistakes.csv
    progress_file,      \* data/user_progress.csv: level -> mastered kanji
    \* frame of run_jlpt_quiz; answered is the history of its answers
    \* (TRUE: the letter chosen was the correct option)
    level, quiz_content, q_no, score, mistakes, review_choice, answered,
    \* frame of run_mistake_practice
    all_mistakes,
    \* frame of run_mistake_review; reviewed is the history of its answers
    caller, rq_no, cleared_mistakes, remaining_mistakes, user_quit_early, reviewed,
    \* history: the Mistake Store when the current menu action started, and
    \* how the most recent menu action came back to the main loop
    mistakes_before, progress_before, last_return,
    \* the most recent direct call of a store operation (SpecStore)
    call,
    \* the data files that do not exist
    missing

stores == <<mistake_file, progress_file>>
quiz_frame == <<level, quiz_content, q_no, score, mistakes, review_choice, answered>>
review_frame == <<caller, rq_no, cleared_mistakes, remaining_mistakes, user_quit_early,
                  reviewed>>
vars == <<pc, now, mistake_file, progress_file,
          level, quiz_content, q_no, score, mistakes, review_choice, answered,
          all_mistakes,
          caller, rq_no, cleared_mistakes, remaining_mistakes, user_quit_early,
          reviewed,
          mistakes_before, progress_before, last_return, call, missing>>

(***************************************************************************)
(* The files outlive the process.  The program starts either on fresh      *)
(* stores or on the stores an earlier run left behind: two N5 quizzes on   *)
(* k1..k10 in which only k2 was missed, the review declined both times.    *)
(* Every data file exists.                                                 *)
(***************************************************************************)
FRESH_STORES == [mistakes |-> reset_mistakes, progress |-> create_progress_file]

EARLIER_STORES ==
    [mistakes |->
        << [word |-> "k2", kana |-> "a2", correct_answer |-> "m2",
            user_answer |-> "m1", mistake_count |-> <<"2">>,
            last_mistake_date |-> <<"date", <<"0">>>>] >>,
     progress |->
        [create_progress_file EXCEPT
            !["N5"] = {"k1", "k3", "k4", "k5", "k6", "k7", "k8", "k9", "k10"}]]

INITIAL_STORES == {FRESH_STORES, EARLIER_STORES}

\* no frame is live
NoQuizFrame ==
    /\ level = "N5"
    /\ quiz_content = <<>>
    /\ q_no = 0
    /\ score = 0
    /\ mistakes = <<>>
    /\ review_choice = ""
    /\ answered = <<>>

NoReviewFrame ==
    /\ all_mistakes = <<>>
    /\ caller = ""
    /\ rq_no = 0
    /\ cleared_mistakes = 0
    /\ remaining_mistakes = <<>>
    /\ user_quit_early = FALSE
    /\ reviewed = <<>>

NO_CALL ==
    [op |-> "", word |-> "", kana |-> "", correct_answer |-> "",
     user_answer |-> "", result |-> ""]

Init ==
    /\ pc = "menu"
    /\ now = 0
    /\ \E st \in INITIAL_STORES :
          /\ mistake_file = st.mistakes
          /\ progress_file = st.progress
    /\ NoQuizFrame
    /\ NoReviewFrame
    /\ mistakes_before = <<>>
    /\ progress_before = create_progress_file
    /\ last_return = "start"
    /\ call = NO_CALL
    /\ missing = {}

\* back in the main loop: the frames of the finished call are gone
ReturnToMenu(how) ==
    /\ pc' = "menu"
    /\ last_return' = how
    /\ level' = "N5"
    /\ quiz_content' = <<>>
    /\ q_no' = 0
    /\ score' = 0
    /\ mistakes' = <<>>
    /\ review_choice' = ""
    /\ answered' = <<>>
    /\ all_mistakes' = <<>>
    /\ caller' = ""
    /\ rq_no' = 0
    /\ cleared_mistakes' = 0
    /\ remaining_mistakes' = <<>>
    /\ user_quit_early' = FALSE
    /\ reviewed' = <<>>
    /\ mistakes_before' = <<>>
    /\ progress_before' = create_progress_file

(***************************************************************************)
(* run_jlpt_quiz.                                                          *)
(***************************************************************************)
\* main menu 1, a level: load the pool and sample QUIZ_LEN entries.
\* random.sample raises ValueError on a pool shorter than QUIZ_LEN.
StartJlptQuiz(lv) ==
    /\ UNCHANGED <<call, missing>>
    /\ pc = "menu"
    /\ now < MaxTime
    /\ now' = now + 1
    /\ level' = lv
    /\ mistakes_before' = mistake_file
    /\ progress_before' = progress_file
    /\ LET all_vocabs == load_jlpt_vocab(lv)
       IN  IF Len(all_vocabs) < QUIZ_LEN
           THEN /\ pc' = "crashed"
                /\ last_return' = "ValueError"
                /\ UNCHANGED <<quiz_content, q_no, score, mistakes, review_choice,
                               answered>>
           ELSE /\ \E qc \in sample(all_vocabs, QUIZ_LEN) : quiz_content' = qc
                /\ q_no' = 0
                /\ score' = 0
                /\ mistakes' = <<>>
                /\ review_choice' = ""
                /\ answered' = <<>>
                /\ pc' = "jlpt_answer"
                /\ last_return' = "running"
    /\ UNCHANGED <<stores, all_mistakes, review_frame>>

\* mutant of AfterQuestion: the loop ends one question early
AfterQuestion_stops_early(q, ms) ==
    IF q < Len(quiz_content) - 1 THEN "jlpt_answer"
    ELSE IF ms # <<>> THEN "jlpt_review_offer" ELSE "jlpt_enter"

\* after the last question: the summary, then either the offer of a review
\* or the final "Press Enter"
AfterQuestion(q, ms) ==
    IF q < Len(quiz_content) THEN "jlpt_answer"
    ELSE IF ms # <<>> THEN "jlpt_review_offer" ELSE "jlpt_enter"

\* the all_content argument of generate_question for the question asked:
\* run_jlpt_quiz and run_character_quiz both pass their quiz_content
distractor_pool == quiz_content

\* an answer A..D that hits the correct option
JlptCorrect ==
    /\ UNCHANGED <<call, missing>>
    /\ pc = "jlpt_answer"
    /\ LET content == quiz_content[q_no + 1]
       IN  /\ \E o \in quiz_outcomes(content.Meaning, distractor_pool) : o.correct
           /\ score' = score + 1
           /\ progress_file' = add_mastered_vocab(progress_file, level, content.Kanji)
           /\ q_no' = q_no + 1
           /\ answered' = Append(answered, TRUE)
           /\ pc' = AfterQuestion(q_no + 1, mistakes)
    /\ UNCHANGED <<now, mistake_file, level, quiz_content, mistakes,
                   review_choice, all_mistakes, review_frame,
                   mistakes_before, progress_before, last_return>>

\* an answer A..D that misses; options[choice_index] raises IndexError when
\* fewer than four options were presented and the letter is beyond them
JlptWrong ==
    /\ UNCHANGED <<call, missing>>
    /\ pc = "jlpt_answer"
    /\ LET content == quiz_content[q_no + 1]
       IN  /\ content.Kanji \in Fallible
           /\ \E o \in quiz_outcomes(content.Meaning, distractor_pool) :
                 /\ ~o.correct
                 /\ IF o.user_answer = INDEX_ERROR
                    THEN /\ pc' = "crashed"
                         /\ last_return' = INDEX_ERROR
                         /\ UNCHANGED <<mistakes, q_no, answered>>
                    ELSE /\ mistakes' = Append(mistakes,
                                [word |-> content.Kanji,
                                 kana |-> content.Kana,
                                 correct_answer |-> content.Meaning,
                                 user_answer |-> o.user_answer])
                         /\ q_no' = q_no + 1
                         /\ answered' = Append(answered, FALSE)
                         /\ pc' = AfterQuestion(q_no + 1, mistakes')
                         /\ UNCHANGED last_return
    /\ UNCHANGED <<now, stores, level, quiz_content, score,
                   review_choice, all_mistakes, review_frame, mistakes_before, progress_before>>

\* Q: the confirmation is asked
JlptQuit ==
    /\ UNCHANGED <<call, missing>>
    /\ pc = "jlpt_answer"
    /\ quiz_content[q_no + 1].Kanji \in Fallible
    /\ pc' = "jlpt_confirm"
    /\ UNCHANGED <<now, stores, quiz_frame, all_mistakes, review_frame,
                   mistakes_before, progress_before, last_return>>

\* Q then Y: return to the main loop
JlptQuitYes ==
    /\ UNCHANGED <<call, missing>>
    /\ pc = "jlpt_confirm"
    /\ ReturnToMenu("jlpt_quit")
    /\ UNCHANGED <<now, stores>>

\* mutant of JlptQuitNo: q_no is incremented before the continue
JlptQuitNo_skips_question ==
    /\ UNCHANGED <<call, missing>>
    /\ pc = "jlpt_confirm"
    /\ pc' = "jlpt_answer"
    /\ q_no' = q_no + 1
    /\ UNCHANGED <<now, stores, level, quiz_content, score, mistakes,
                   review_choice, answered, all_mistakes, review_frame,
                   mistakes_before, progress_before, last_return>>

\* Q then N: continue, the same question is generated again
JlptQuitNo ==
    /\ UNCHANGED <<call, missing>>
    /\ pc = "jlpt_confirm"
    /\ pc' = "jlpt_answer"
    /\ UNCHANGED <<now, stores, quiz_frame, all_mistakes, review_frame,
                   mistakes_before, progress_before, last_return>>

\* review offer declined: every session mistake is saved
ReviewOfferNo ==
    /\ UNCHANGED <<call, missing>>
    /\ pc = "jlpt_review_offer"
    /\ review_choice' = "N"
    /\ mistake_file' = add_mistakes(mistake_file, mistakes, now)
    /\ pc' = "jlpt_enter"
    /\ UNCHANGED <<now, progress_file, level, quiz_content, q_no, score,
                   mistakes, answered, all_mistakes, review_frame,
                   mistakes_before, progress_before, last_return>>

(***************************************************************************)
(* run_mistake_review.  mistakes_list is the caller's list (mistakes of    *)
(* run_jlpt_quiz, all_mistakes of run_mistake_practice), shuffled in place.*)
(***************************************************************************)
mistakes_list == IF caller = "jlpt" THEN mistakes ELSE all_mistakes

\* the all_content argument: the level's pool for the inline review, the
\* pools of all levels for the practice
all_content == IF caller = "jlpt" THEN load_jlpt_vocab(level) ELSE all_jlpt_vocab

\* review offer accepted: run_mistake_review(all_vocabs, 'jlpt', mistakes)
ReviewOfferYes ==
    /\ UNCHANGED <<call, missing>>
    /\ pc = "jlpt_review_offer"
    /\ review_choice' = "Y"
    /\ \E shuffled \in shuffle(mistakes) : mistakes' = shuffled
    /\ caller' = "jlpt"
    /\ rq_no' = 0
    /\ cleared_mistakes' = 0
    /\ remaining_mistakes' = <<>>
    /\ user_quit_early' = FALSE
    /\ reviewed' = <<>>
    /\ pc' = "review_answer"
    /\ UNCHANGED <<now, stores, level, quiz_content, q_no, score, answered,
                   all_mistakes, mistakes_before, progress_before, last_return>>

\* what the caller does with the returned (cleared, remaining, quit_early):
\* the new content of the Mistake Store
\*   run_jlpt_quiz: quit early -> every session mistake is added;
\*                  otherwise  -> the returned mistakes are added
\*   run_mistake_practice: quit early -> nothing;
\*                  otherwise  -> reset, then the returned mistakes are added
\* mutant of persist_review: the practice saves the returned list on a quit too
persist_review_saves_on_quit(file, remaining, quit_early, t) ==
    IF caller = "jlpt"
    THEN IF quit_early THEN add_mistakes(file, mistakes, t)
         ELSE add_mistakes(file, remaining, t)
    ELSE add_mistakes(reset_mistakes, remaining, t)

\* mutant of persist_review: the practice adds to the store without resetting it
persist_review_no_reset(file, remaining, quit_early, t) ==
    IF caller = "jlpt"
    THEN IF quit_early THEN add_mistakes(file, mistakes, t)
         ELSE add_mistakes(file, remaining, t)
    ELSE IF quit_early THEN file
         ELSE add_mistakes(file, remaining, t)

persist_review(file, remaining, quit_early, t) ==
    IF caller = "jlpt"
    THEN IF quit_early THEN add_mistakes(file, mistakes, t)
         ELSE add_mistakes(file, remaining, t)
    ELSE IF quit_early THEN file
         ELSE add_mistakes(reset_mistakes, remaining, t)

ReturnPrompt == IF caller = "jlpt" THEN "jlpt_enter" ELSE "practice_enter"

\* mutant of review_step: a hit is counted but the mistake is kept as well
review_step_keeps_cleared(cleared, remaining, mistake, hit) ==
    IF hit THEN [cleared |-> cleared + 1, remaining |-> Append(remaining, mistake)]
    ELSE [cleared |-> cleared, remaining |-> Append(remaining, mistake)]

\* one evaluated review answer: a hit is counted as cleared, a miss keeps
\* the mistake in the remaining list
review_step(cleared, remaining, mistake, hit) ==
    IF hit THEN [cleared |-> cleared + 1, remaining |-> remaining]
    ELSE [cleared |-> cleared, remaining |-> Append(remaining, mistake)]

\* mutant of review_quit: the question in progress is left out
review_quit_skips_current(remaining, list, q_idx) ==
    remaining \o SubSeq(list, q_idx + 2, Len(list))

\* mutant of review_quit: the whole list is added to the remaining mistakes
review_quit_adds_all(remaining, list, q_idx) ==
    remaining \o list

\* confirmed quit at question q_idx (0-based):
\* remaining_mistakes.extend(mistakes_list[q_no:])
review_quit(remaining, list, q_idx) ==
    remaining \o SubSeq(list, q_idx + 1, Len(list))

\* an answer A..D in the review; after the last one the review returns and
\* the caller saves
ReviewAnswer ==
    /\ UNCHANGED <<call, missing>>
    /\ pc = "review_answer"
    /\ LET mistake == mistakes_list[rq_no + 1]
       IN  \E hit \in review_outcomes(mistake.correct_answer, all_content) :
              /\ LET step == review_step(cleared_mistakes, remaining_mistakes,
                                          mistake, hit)
                 IN  /\ cleared_mistakes' = step.cleared
                     /\ remaining_mistakes' = step.remaining
              /\ rq_no' = rq_no + 1
              /\ reviewed' = Append(reviewed, hit)
              /\ IF rq_no + 1 < Len(mistakes_list)
                 THEN /\ pc' = "review_answer"
                      /\ UNCHANGED mistake_file
                 ELSE /\ pc' = ReturnPrompt
                      /\ mistake_file' =
                            persist_review(mistake_file, remaining_mistakes', FALSE, now)
    /\ UNCHANGED <<now, progress_file, quiz_frame, all_mistakes, caller,
                   user_quit_early, mistakes_before, progress_before, last_return>>

ReviewQuit ==
    /\ UNCHANGED <<call, missing>>
    /\ pc = "review_answer"
    /\ pc' = "review_confirm"
    /\ UNCHANGED <<now, stores, quiz_frame, all_mistakes, review_frame,
                   mistakes_before, progress_before, last_return>>

\* Q then Y: the current and all later mistakes are returned as remaining
ReviewQuitYes ==
    /\ UNCHANGED <<call, missing>>
    /\ pc = "review_confirm"
    /\ remaining_mistakes' = review_quit(remaining_mistakes, mistakes_list, rq_no)
    /\ user_quit_early' = TRUE
    /\ mistake_file' = persist_review(mistake_file, remaining_mistakes', TRUE, now)
    /\ pc' = ReturnPrompt
    /\ UNCHANGED <<now, progress_file, quiz_frame, all_mistakes, caller,
                   rq_no, cleared_mistakes, reviewed, mistakes_before, progress_before,
                   last_return>>

ReviewQuitNo ==
    /\ UNCHANGED <<call, missing>>
    /\ pc = "review_confirm"
    /\ pc' = "review_answer"
    /\ UNCHANGED <<now, stores, quiz_frame, all_mistakes, review_frame,
                   mistakes_before, progress_before, last_return>>

(***************************************************************************)
(* run_character_quiz.  It shares the names quiz_content, q_no and score   *)
(* with run_jlpt_quiz; it reads no clock and writes no store.              *)
(***************************************************************************)
\* main menu 2: load the characters and sample QUIZ_LEN of them.
\* random.sample raises ValueError on a pool shorter than QUIZ_LEN.
StartCharacterQuiz ==
    /\ UNCHANGED <<call, missing>>
    /\ pc = "menu"
    /\ now < MaxTime
    /\ mistakes_before' = mistake_file
    /\ progress_before' = progress_file
    /\ LET all_characters == load_characters
       IN  IF Len(all_characters) < QUIZ_LEN
           THEN /\ pc' = "crashed"
                /\ last_return' = "ValueError"
                /\ UNCHANGED <<quiz_content, q_no, score, answered>>
           ELSE /\ \E qc \in sample(all_characters, QUIZ_LEN) : quiz_content' = qc
                /\ q_no' = 0
                /\ score' = 0
                /\ answered' = <<>>
                /\ pc' = "char_answer"
                /\ last_return' = "running"
    /\ UNCHANGED <<now, stores, level, mistakes, review_choice, all_mistakes,
                   review_frame>>

\* mutant of score_after: every answer counts
score_after_counts_every_answer(s, hit) == s + 1

\* "if choice_index == correct_index: score += 1"
score_after(s, hit) == IF hit THEN s + 1 ELSE s

\* mutant of CharAnswer: a correct answer is recorded as mastered, as in
\* run_jlpt_quiz
CharAnswer_records_mastery ==
    /\ UNCHANGED <<call, missing>>
    /\ pc = "char_answer"
    /\ LET content == quiz_content[q_no + 1]
       IN  \E hit \in character_outcomes(content["Correct Answer"], distractor_pool) :
              /\ hit \/ content["Character"] \in FallibleCharacters
              /\ score' = score_after(score, hit)
              /\ progress_file' =
                    IF hit
                    THEN add_mastered_vocab(progress_file, level, content["Character"])
                    ELSE progress_file
              /\ q_no' = q_no + 1
              /\ answered' = Append(answered, hit)
              /\ pc' = IF q_no + 1 < Len(quiz_content)
                       THEN "char_answer" ELSE "char_enter"
    /\ UNCHANGED <<now, mistake_file, level, quiz_content, mistakes, review_choice,
                   all_mistakes, review_frame, mistakes_before, progress_before, last_return>>

\* mutant of CharAnswer: a miss is written to the Mistake Store
CharAnswer_saves_mistake ==
    /\ UNCHANGED <<call, missing>>
    /\ pc = "char_answer"
    /\ LET content == quiz_content[q_no + 1]
       IN  \E hit \in character_outcomes(content["Correct Answer"], distractor_pool) :
              /\ hit \/ content["Character"] \in FallibleCharacters
              /\ score' = score_after(score, hit)
              /\ q_no' = q_no + 1
              /\ answered' = Append(answered, hit)
              /\ mistake_file' =
                    IF hit THEN mistake_file
                    ELSE add_mistake(mistake_file, content["Character"], "",
                                     content["Correct Answer"], "", now)
              /\ pc' = IF q_no + 1 < Len(quiz_content)
                       THEN "char_answer" ELSE "char_enter"
    /\ UNCHANGED <<now, progress_file, level, quiz_content, mistakes, review_choice,
                   all_mistakes, review_frame, mistakes_before, progress_before, last_return>>

\* an answer A..D
CharAnswer ==
    /\ UNCHANGED <<call, missing>>
    /\ pc = "char_answer"
    /\ LET content == quiz_content[q_no + 1]
       IN  \E hit \in character_outcomes(content["Correct Answer"], distractor_pool) :
              /\ hit \/ content["Character"] \in FallibleCharacters
              /\ score' = score_after(score, hit)
              /\ q_no' = q_no + 1
              /\ answered' = Append(answered, hit)
              /\ pc' = IF q_no + 1 < Len(quiz_content)
                       THEN "char_answer" ELSE "char_enter"
    /\ UNCHANGED <<now, stores, level, quiz_content, mistakes, review_choice,
                   all_mistakes, review_frame, mistakes_before, progress_before, last_return>>

\* Q: the confirmation is asked
CharQuit ==
    /\ UNCHANGED <<call, missing>>
    /\ pc = "char_answer"
    /\ quiz_content[q_no + 1]["Character"] \in FallibleCharacters
    /\ pc' = "char_confirm"
    /\ UNCHANGED <<now, stores, quiz_frame, all_mistakes, review_frame,
                   mistakes_before, progress_before, last_return>>

\* Q then Y: return to the main loop
CharQuitYes ==
    /\ UNCHANGED <<call, missing>>
    /\ pc = "char_confirm"
    /\ ReturnToMenu("char_quit")
    /\ UNCHANGED <<now, stores>>

\* Q then N: continue, the same question is generated again
CharQuitNo ==
    /\ UNCHANGED <<call, missing>>
    /\ pc = "char_confirm"
    /\ pc' = "char_answer"
    /\ UNCHANGED <<now, stores, quiz_frame, all_mistakes, review_frame,
                   mistakes_before, progress_before, last_return>>

(***************************************************************************)
(* run_mistake_practice.                                                   *)
(***************************************************************************)
StartMistakePractice ==
    /\ UNCHANGED <<call, missing>>
    /\ pc = "menu"
    /\ now < MaxTime
    /\ now' = now + 1
    /\ mistakes_before' = mistake_file
    /\ progress_before' = progress_file
    /\ caller' = "practice"
    /\ rq_no' = 0
    /\ cleared_mistakes' = 0
    /\ remaining_mistakes' = <<>>
    /\ user_quit_early' = FALSE
    /\ reviewed' = <<>>
    /\ last_return' = "running"
    /\ IF load_mistakes(mistake_file) = <<>>
       THEN /\ all_mistakes' = <<>>
            /\ pc' = "practice_enter"
       ELSE /\ \E shuffled \in shuffle(load_mistakes(mistake_file)) :
                  all_mistakes' = shuffled
            /\ pc' = "review_answer"
    /\ UNCHANGED <<stores, quiz_frame>>

\* the final "Press Enter to return to the Main Menu"
PressEnter ==
    /\ UNCHANGED <<call, missing>>
    /\ pc \in {"jlpt_enter", "char_enter", "practice_enter"}
    /\ ReturnToMenu(IF pc = "jlpt_enter" THEN "jlpt_done"
                    ELSE IF pc = "char_enter" THEN "char_done"
                    ELSE "practice_done")
    /\ UNCHANGED <<now, stores>>

(***************************************************************************)
(* main.                                                                   *)
(***************************************************************************)
\* mutant of Reset: only the progress is reset
Reset_keeps_mistakes ==
    /\ UNCHANGED <<call, missing>>
    /\ pc = "menu"
    /\ now < MaxTime
    /\ now' = now + 1
    /\ progress_file' = reset_progress
    /\ last_return' = "reset"
    /\ mistakes_before' = mistake_file
    /\ progress_before' = progress_file
    /\ UNCHANGED <<pc, mistake_file, quiz_frame, all_mistakes, review_frame>>

\* main menu 6, then Y
Reset ==
    /\ UNCHANGED <<call, missing>>
    /\ pc = "menu"
    /\ now < MaxTime
    /\ now' = now + 1
    /\ progress_file' = reset_progress
    /\ mistake_file' = reset_mistakes
    /\ last_return' = "reset"
    /\ mistakes_before' = mistake_file
    /\ progress_before' = progress_file
    /\ UNCHANGED <<pc, quiz_frame, all_mistakes, review_frame>>

\* main menu 3 (a level) or 4: the vocabulary or the characters are listed
Browse ==
    /\ UNCHANGED <<call, missing>>
    /\ pc = "menu"
    /\ last_return' = "browse"
    /\ UNCHANGED <<pc, now, stores, quiz_frame, all_mistakes, review_frame,
                   mistakes_before, progress_before>>

\* main menu 7, then Y
Exit ==
    /\ UNCHANGED <<call, missing>>
    /\ pc = "menu"
    /\ pc' = "exited"
    /\ UNCHANGED <<now, stores, quiz_frame, all_mistakes, review_frame,
                   mistakes_before, progress_before, last_return>>

Next ==
    \/ \E lv \in LevelSet : StartJlptQuiz(lv)
    \/ JlptCorrect
    \/ JlptWrong
    \/ JlptQuit
    \/ JlptQuitYes
    \/ JlptQuitNo
    \/ ReviewOfferNo
    \/ ReviewOfferYes
    \/ ReviewAnswer
    \/ ReviewQuit
    \/ ReviewQuitYes
    \/ ReviewQuitNo
    \/ StartCharacterQuiz
    \/ CharAnswer
    \/ CharQuit
    \/ CharQuitYes
    \/ CharQuitNo
    \/ StartMistakePractice
    \/ PressEnter
    \/ Reset
    \/ Browse
    \/ Exit

Spec == Init /\ [][Next]_vars

TypeOK ==
    /\ pc \in {"menu", "jlpt_answer", "jlpt_confirm", "jlpt_review_offer",
               "jlpt_enter", "review_answer", "review_confirm",
               "char_answer", "char_confirm", "char_enter",
               "practice_enter", "crashed", "exited"}
    /\ now \in 0..MaxTime
    /\ q_no \in 0..QUIZ_LEN
    /\ score \in 0..QUIZ_LEN

(***************************************************************************)
(* SpecStore: the operations of the Mistake Store called directly, one     *)
(* call per second, on arguments drawn from small sets.                    *)
(***************************************************************************)
API_WORDS == {"k2", "k3"}
API_KANA == {"a2", "a3"}
API_CORRECT == {"m2"}
API_WRONG == {"m1", "m3"}
API_LEVELS == {"N5", "N4"}

\* the Mistake Store the calls start on: the empty file, or a file in which
\* one word has been missed nine times
API_STORES ==
    { reset_mistakes,
      << [word |-> "k2", kana |-> "a2", correct_answer |-> "m2",
          user_answer |-> "m1", mistake_count |-> <<"9">>,
          last_mistake_date |-> <<"date", <<"0">>>>] >> }

InitStore ==
    /\ pc = "api"
    /\ now = 0
    /\ mistake_file \in API_STORES
    /\ progress_file = create_progress_file
    /\ NoQuizFrame
    /\ NoReviewFrame
    /\ mistakes_before = <<>>
    /\ progress_before = create_progress_file
    /\ last_return = "start"
    /\ call = NO_CALL
    /\ missing = {}

CallAddMistake ==
    /\ UNCHANGED missing
    /\ pc = "api"
    /\ now < MaxCalls
    /\ now' = now + 1
    /\ mistakes_before' = mistake_file
    /\ progress_before' = progress_file
    /\ \E word \in API_WORDS, kana \in API_KANA,
          correct_answer \in API_CORRECT, user_answer \in API_WRONG :
          /\ mistake_file' =
                add_mistake(mistake_file, word, kana, correct_answer, user_answer, now')
          /\ call' = [op |-> "add_mistake", word |-> word, kana |-> kana,
                      correct_answer |-> correct_answer,
                      user_answer |-> user_answer, result |-> "None"]
    /\ UNCHANGED <<pc, progress_file, quiz_frame, all_mistakes, review_frame,
                   last_return>>

CallRemoveMistake ==
    /\ UNCHANGED missing
    /\ pc = "api"
    /\ now < MaxCalls
    /\ now' = now + 1
    /\ mistakes_before' = mistake_file
    /\ progress_before' = progress_file
    /\ \E word \in API_WORDS :
          /\ mistake_file' = remove_mistake(mistake_file, word)
          /\ call' = [NO_CALL EXCEPT !.op = "remove_mistake", !.word = word,
                         !.result = IF remove_mistake_result(mistake_file, word)
                                    THEN "True" ELSE "False"]
    /\ UNCHANGED <<pc, progress_file, quiz_frame, all_mistakes, review_frame,
                   last_return>>

CallResetMistakes ==
    /\ UNCHANGED missing
    /\ pc = "api"
    /\ now < MaxCalls
    /\ now' = now + 1
    /\ mistakes_before' = mistake_file
    /\ progress_before' = progress_file
    /\ mistake_file' = reset_mistakes
    /\ call' = [NO_CALL EXCEPT !.op = "reset_mistakes", !.result = "True"]
    /\ UNCHANGED <<pc, progress_file, quiz_frame, all_mistakes, review_frame,
                   last_return>>

\* add_mastered_vocab(level, kanji); before is the file the call found
CallAddMasteredVocab ==
    /\ UNCHANGED missing
    /\ pc = "api"
    /\ now < MaxCalls
    /\ now' = now + 1
    /\ \E lv \in API_LEVELS, kanji \in API_WORDS :
          /\ progress_file' = add_mastered_vocab(progress_file, lv, kanji)
          /\ call' = [op |-> "add_mastered_vocab", level |-> lv, kanji |-> kanji,
                      before |-> progress_file,
                      result |-> IF add_mastered_vocab_result(progress_file, lv, kanji)
                                 THEN "True" ELSE "False"]
    /\ UNCHANGED <<pc, mistake_file, quiz_frame, all_mistakes, review_frame,
                   mistakes_before, progress_before, last_return>>

NextStore ==
    \/ CallAddMistake
    \/ CallRemoveMistake
    \/ CallResetMistakes
    \/ CallAddMasteredVocab

SpecStore == InitStore /\ [][NextStore]_vars

(***************************************************************************)
(* SpecQuestion: generate_question and get_correct_answer_index called     *)
(* directly.  The candidate pool is any list of at most MaxPool entries    *)
(* of one kind; the correct item is any entry of that kind, in the pool or *)
(* not.  Answers are shared between entries.                               *)
(***************************************************************************)
QUESTION_CONTENT ==
    [jlpt |-> {Vocab("k1", "a1", "m1"), Vocab("k2", "a2", "m2"),
               Vocab("k4", "a4", "m1")},
     character |-> {Character("c1", "r1"), Character("c2", "r2")}]

QUIZ_TYPES == DOMAIN QUESTION_CONTENT

\* the lists of at most n entries of the set S
RECURSIVE ListsUpTo(_, _)
ListsUpTo(S, n) ==
    IF n = 0 THEN {<<>>}
    ELSE LET shorter == ListsUpTo(S, n - 1)
         IN  shorter \cup {Append(l, x) : l \in shorter, x \in S}

\* a 10-item sample of a level in which all meanings but two are the same
SHORT_SAMPLE ==
    [i \in 1..QUIZ_LEN |->
        [N5_VOCAB[i] EXCEPT !.Meaning = IF i \in {2, 3} THEN @ ELSE "m1"]]

\* the pools handed to generate_question: the short lists, and for quiz_type
\* 'jlpt' the sample of a quiz
QUESTION_POOLS(quiz_type) ==
    ListsUpTo(QUESTION_CONTENT[quiz_type], MaxPool)
        \cup (IF quiz_type = "jlpt" THEN {SHORT_SAMPLE} ELSE {})

InitQuestion ==
    /\ pc = "api"
    /\ now = 0
    /\ mistake_file = reset_mistakes
    /\ progress_file = create_progress_file
    /\ level = "N5"
    /\ \E quiz_type \in QUIZ_TYPES : quiz_content \in QUESTION_POOLS(quiz_type)
    /\ q_no = 0
    /\ score = 0
    /\ mistakes = <<>>
    /\ review_choice = ""
    /\ answered = <<>>
    /\ NoReviewFrame
    /\ mistakes_before = <<>>
    /\ progress_before = create_progress_file
    /\ last_return = "start"
    /\ call = NO_CALL
    /\ missing = {}

\* generate_question(correct_content, quiz_content, quiz_type), then
\* get_correct_answer_index(options, correct_answer)
CallGenerateQuestion ==
    /\ pc = "api"
    /\ \E quiz_type \in QUIZ_TYPES :
          /\ quiz_content \in QUESTION_POOLS(quiz_type)
          /\ \E correct_content \in QUESTION_CONTENT[quiz_type] \cup Range(quiz_content) :
                \E options \in generate_question(correct_content, quiz_content,
                                                 quiz_type) :
                   call' =
                      [op |-> "generate_question",
                       quiz_type |-> quiz_type,
                       correct_answer |-> correct_content[option_type_of(quiz_type)],
                       options |-> options,
                       correct_index |->
                          get_correct_answer_index(options,
                              correct_content[option_type_of(quiz_type)])]
    /\ UNCHANGED <<pc, now, stores, quiz_frame, all_mistakes, review_frame,
                   mistakes_before, progress_before, last_return, missing>>

\* run_jlpt_quiz: the answer letter to the question presented, asked on the
\* quiz's sample, is mapped to an index and evaluated
CallJlptAnswer ==
    /\ pc = "api"
    /\ call.op = "generate_question"
    /\ call.quiz_type = "jlpt"
    /\ Len(quiz_content) = QUIZ_LEN
    /\ \E choice_index \in CHOICE_INDEXES :
          call' = [op |-> "jlpt_answer",
                   correct_answer |-> call.correct_answer,
                   options |-> call.options,
                   choice_index |-> choice_index,
                   outcome |-> quiz_answer(call.options, call.correct_answer,
                                           choice_index)]
    /\ UNCHANGED <<pc, now, stores, quiz_frame, all_mistakes, review_frame,
                   mistakes_before, progress_before, last_return, missing>>

\* run_mistake_review: the answer letter to the review question presented,
\* asked on the pool of a level a quiz was run on, is mapped to an index and
\* compared
CallReviewAnswer ==
    /\ pc = "api"
    /\ call.op = "generate_question"
    /\ call.quiz_type = "jlpt"
    /\ Len(quiz_content) >= QUIZ_LEN
    /\ \E choice_index \in CHOICE_INDEXES :
          call' = [op |-> "review_answer",
                   correct_answer |-> call.correct_answer,
                   options |-> call.options,
                   choice_index |-> choice_index,
                   outcome |->
                      [correct |-> review_answer(call.options, call.correct_answer,
                                                 choice_index),
                       user_answer |-> ""]]
    /\ UNCHANGED <<pc, now, stores, quiz_frame, all_mistakes, review_frame,
                   mistakes_before, progress_before, last_return, missing>>

NextQuestion ==
    \/ CallGenerateQuestion
    \/ CallJlptAnswer
    \/ CallReviewAnswer

SpecQuestion == InitQuestion /\ [][NextQuestion]_vars

(***************************************************************************)
(* SpecLoad: the load operations called directly, one call per second,     *)
(* with any subset of the data files absent.  An absent file has no        *)
(* content; load_mastered_vocabs creates the one it misses.                *)
(***************************************************************************)
MISTAKE_FILE == "data/mistakes.csv"
PROGRESS_FILE == "data/user_progress.csv"
CHARACTER_FILE == "data/characters.csv"
JLPT_FILES ==
    [N5 |-> "data/jlpt_n5.csv", N4 |-> "data/jlpt_n4.csv",
     N3 |-> "data/jlpt_n3.csv", N2 |-> "data/jlpt_n2.csv",
     N1 |-> "data/jlpt_n1.csv"]

DATA_FILES ==
    {MISTAKE_FILE, PROGRESS_FILE, CHARACTER_FILE} \cup {JLPT_FILES[lv] : lv \in LevelSet}

\* Python values: what a function returns when it falls off its end, a
\* list, a dict, an int, and the exception of len(None)
None == [type |-> "NoneType"]
list(rows) == [type |-> "list", value |-> rows]
dict(d) == [type |-> "dict", value |-> d]
number(n) == [type |-> "int", value |-> n]
TypeError == [type |-> "TypeError"]

\* len(x)
len(x) == IF x.type = "list" THEN number(Len(x.value)) ELSE TypeError

\* load_mistakes(): the except branch prints and returns nothing
open_load_mistakes(file, gone) ==
    IF MISTAKE_FILE \in gone THEN None ELSE list(load_mistakes(file))

\* get_mistake_count(): len(load_mistakes())
get_mistake_count(file, gone) == len(open_load_mistakes(file, gone))

\* load_jlpt_vocab(level): [] for an unknown level; the except branch
\* prints and returns nothing
open_load_jlpt_vocab(lv, gone) ==
    IF lv \notin DOMAIN JLPT_FILES THEN list(<<>>)
    ELSE IF JLPT_FILES[lv] \in gone THEN None
    ELSE list(load_jlpt_vocab(lv))

\* load_characters(): the except branch prints and returns nothing
open_load_characters(gone) ==
    IF CHARACTER_FILE \in gone THEN None ELSE list(load_characters)

\* load_mastered_vocabs(): the except branch creates the file and returns
\* the five empty sets
open_load_mastered_vocabs(file, gone) ==
    IF PROGRESS_FILE \in gone THEN dict(create_progress_file)
    ELSE dict(load_mastered_vocabs(file))

\* load_user_progress(): level -> (mastered, total); len(all_vocab) raises
\* TypeError at the first level, in LEVELS order, whose file is absent
load_user_progress(file, gone) ==
    LET mastery == open_load_mastered_vocabs(file, gone).value
        total(lv) == len(open_load_jlpt_vocab(lv, gone))
    IN  IF \E i \in 1..Len(LEVELS) : total(LEVELS[i]).type = "TypeError"
        THEN TypeError
        ELSE dict([lv \in LevelSet |->
                    <<Cardinality(mastery[lv]), total(lv).value>>])

InitLoad ==
    /\ pc = "api"
    /\ now = 0
    /\ mistake_file = reset_mistakes
    /\ progress_file = create_progress_file
    /\ NoQuizFrame
    /\ NoReviewFrame
    /\ mistakes_before = <<>>
    /\ progress_before = create_progress_file
    /\ last_return = "start"
    /\ call = NO_CALL
    /\ missing \in SUBSET DATA_FILES

\* what every call of SpecLoad leaves alone
LoadFrame ==
    /\ pc = "api"
    /\ now < MaxCalls
    /\ now' = now + 1
    /\ UNCHANGED <<pc, mistake_file, quiz_frame, all_mistakes, review_frame,
                   mistakes_before, progress_before, last_return>>

CallLoadMistakes ==
    /\ LoadFrame
    /\ call' = [op |-> "load_mistakes", absent |-> MISTAKE_FILE \in missing,
                result |-> open_load_mistakes(mistake_file, missing)]
    /\ UNCHANGED <<progress_file, missing>>

CallGetMistakeCount ==
    /\ LoadFrame
    /\ call' = [op |-> "get_mistake_count", absent |-> MISTAKE_FILE \in missing,
                result |-> get_mistake_count(mistake_file, missing)]
    /\ UNCHANGED <<progress_file, missing>>

CallLoadJlptVocab ==
    /\ LoadFrame
    /\ \E lv \in LevelSet :
          call' = [op |-> "load_jlpt_vocab", absent |-> JLPT_FILES[lv] \in missing,
                   result |-> open_load_jlpt_vocab(lv, missing)]
    /\ UNCHANGED <<progress_file, missing>>

CallLoadCharacters ==
    /\ LoadFrame
    /\ call' = [op |-> "load_characters", absent |-> CHARACTER_FILE \in missing,
                result |-> open_load_characters(missing)]
    /\ UNCHANGED <<progress_file, missing>>

CallLoadMasteredVocabs ==
    /\ LoadFrame
    /\ call' = [op |-> "load_mastered_vocabs", absent |-> PROGRESS_FILE \in missing,
                result |-> open_load_mastered_vocabs(progress_file, missing)]
    /\ progress_file' =
          IF PROGRESS_FILE \in missing THEN create_progress_file ELSE progress_file
    /\ missing' = missing \ {PROGRESS_FILE}

CallLoadUserProgress ==
    /\ LoadFrame
    /\ call' = [op |-> "load_user_progress",
                absent |-> \E lv \in LevelSet : JLPT_FILES[lv] \in missing,
                result |-> load_user_progress(progress_file, missing)]
    /\ progress_file' =
          IF PROGRESS_FILE \in missing THEN create_progress_file ELSE progress_file
    /\ missing' = missing \ {PROGRESS_FILE}

NextLoad ==
    \/ CallLoadMistakes
    \/ CallGetMistakeCount
    \/ CallLoadJlptVocab
    \/ CallLoadCharacters
    \/ CallLoadMasteredVocabs
    \/ CallLoadUserProgress

SpecLoad == InitLoad /\ [][NextLoad]_vars

(***************************************************************************)
(* SpecChoice: get_user_choice called directly.  A text is the sequence of *)
(* its characters; a line the user types is any text of at most MaxInput   *)
(* characters of INPUT_CHARS.                                              *)
(***************************************************************************)
MaxInput == 3

WHITESPACE == {" ", "\t"}

LOWERCASE == <<"a", "b", "c", "d", "n", "q", "r", "y">>
UPPERCASE == <<"A", "B", "C", "D", "N", "Q", "R", "Y">>

\* str.strip(): leading and trailing whitespace removed
RECURSIVE strip(_)
strip(text) ==
    IF text = <<>> THEN text
    ELSE IF text[1] \in WHITESPACE THEN strip(Tail(text))
    ELSE IF text[Len(text)] \in WHITESPACE
         THEN strip(SubSeq(text, 1, Len(text) - 1))
    ELSE text

\* mutant of upper: the text is left as typed
upper_keeps_case(text) == text

\* str.upper(): every lower-case letter replaced by its capital
upper(text) ==
    [i \in 1..Len(text) |->
        IF \E k \in 1..Len(LOWERCASE) : LOWERCASE[k] = text[i]
        THEN UPPERCASE[CHOOSE k \in 1..Len(LOWERCASE) : LOWERCASE[k] = text[i]]
        ELSE text[i]]

\* the valid_options of the call sites: answer letters, confirmations, and
\* range(1, 8) of the main menu, whose items are numbers
VALID_OPTIONS ==
    { [items_are |-> "str", items |-> << <<"A">>, <<"B">>, <<"C">>, <<"D">>, <<"Q">> >>],
      [items_are |-> "str", items |-> << <<"Y">>, <<"N">> >>],
      [items_are |-> "int", items |-> <<1, 2, 3, 4, 5, 6, 7>>] }

\* [str(option).upper() for option in valid_options]
upper_options(valid_options) ==
    [k \in 1..Len(valid_options.items) |->
        upper(IF valid_options.items_are = "int"
              THEN str(valid_options.items[k])
              ELSE valid_options.items[k])]

INPUT_CHARS == {"a", "N", "7", " "}

INPUT_LINES == ListsUpTo(INPUT_CHARS, MaxInput)

\* get_user_choice is entered and blocks on its first input()
EnterGetUserChoice(valid_options) ==
    [op |-> "get_user_choice", valid_options |-> valid_options,
     read |-> FALSE, line |-> <<>>, returned |-> FALSE, choice |-> <<>>]

InitChoice ==
    /\ pc = "choice_input"
    /\ now = 0
    /\ mistake_file = reset_mistakes
    /\ progress_file = create_progress_file
    /\ NoQuizFrame
    /\ NoReviewFrame
    /\ mistakes_before = <<>>
    /\ progress_before = create_progress_file
    /\ last_return = "start"
    /\ \E valid_options \in VALID_OPTIONS : call = EnterGetUserChoice(valid_options)
    /\ missing = {}

\* one turn of the while loop: a line is read; the call returns the choice
\* or prints the error and blocks on input() again
InputLine ==
    /\ pc = "choice_input"
    /\ \E line \in INPUT_LINES :
          LET choice == upper(strip(line))
              valid == choice \in Range(upper_options(call.valid_options))
          IN  /\ call' = [call EXCEPT !.read = TRUE, !.line = line,
                                      !.returned = valid,
                                      !.choice = IF valid THEN choice ELSE <<>>]
              /\ pc' = IF valid THEN "choice_returned" ELSE "choice_input"
    /\ UNCHANGED <<now, stores, quiz_frame, all_mistakes, review_frame,
                   mistakes_before, progress_before, last_return, missing>>

\* the next call of get_user_choice
CallGetUserChoice ==
    /\ pc = "choice_returned"
    /\ pc' = "choice_input"
    /\ \E valid_options \in VALID_OPTIONS : call' = EnterGetUserChoice(valid_options)
    /\ UNCHANGED <<now, stores, quiz_frame, all_mistakes, review_frame,
                   mistakes_before, progress_before, last_return, missing>>

NextChoice ==
    \/ InputLine
    \/ CallGetUserChoice

SpecChoice == InitChoice /\ [][NextChoice]_vars

(***************************************************************************)
(* Properties.                                                             *)
(***************************************************************************)
Key(m) == <<m.word, m.kana>>

Keys(ms) == {Key(ms[i]) : i \in 1..Len(ms)}

\* the positions of a key in a list of mistakes
Positions(ms, key) == {i \in 1..Len(ms) : Key(ms[i]) = key}

\* C1: add_mistake(word, kana, correct, user) on a store that holds a record
\* for (word, kana) adds 1 to that record's mistake_count and overwrites its
\* correct_answer, user_answer and last_mistake_date, adding no record; on a
\* store without such a record it appends one record with mistake_count 1.
C1_UpsertLaw ==
    call.op = "add_mistake" =>
        LET before == load_mistakes(mistakes_before)
            after == load_mistakes(mistake_file)
            key == <<call.word, call.kana>>
        IN  IF Positions(before, key) # {}
            THEN /\ Len(after) = Len(before)
                 /\ \A i \in Positions(before, key) :
                       /\ Key(after[i]) = key
                       /\ after[i].mistake_count = before[i].mistake_count + 1
                       /\ after[i].correct_answer = call.correct_answer
                       /\ after[i].user_answer = call.user_answer
                       /\ after[i].last_mistake_date = strftime(now)
            ELSE /\ Len(after) = Len(before) + 1
                 /\ after[Len(after)] =
                       [word |-> call.word, kana |-> call.kana,
                        correct_answer |-> call.correct_answer,
                        user_answer |-> call.user_answer,
                        mistake_count |-> 1,
                        last_mistake_date |-> strftime(now)]

\* C1 witness: a call on a key already present, whose recorded user_answer
\* and date differ from the new ones
C1_Witness ==
    /\ call.op = "add_mistake"
    /\ \E i \in Positions(load_mistakes(mistakes_before), <<call.word, call.kana>>) :
          /\ mistakes_before[i].user_answer # call.user_answer
          /\ mistakes_before[i].last_mistake_date # strftime(now)
          /\ Len(mistakes_before) >= 2

\* C2: the Mistake Store never holds two records with the same (word, kana)
C2_NoDuplicateKeys ==
    \A i, j \in 1..Len(mistake_file) :
        Key(mistake_file[i]) = Key(mistake_file[j]) => i = j

\* C2 witness: a practice run has rewritten a store of several records, one
\* of them counted more than once before
C2_Witness ==
    /\ pc = "practice_enter"
    /\ ~user_quit_early
    /\ Len(mistakes_before) >= 2
    /\ Len(mistake_file) >= 2
    /\ \E i \in 1..Len(mistakes_before) : int(mistakes_before[i].mistake_count) >= 2

RECURSIVE KeepMissed(_, _)
\* the entries of ms whose answer in log was a miss, in order
KeepMissed(ms, log) ==
    IF ms = <<>> \/ log = <<>> THEN <<>>
    ELSE (IF log[1] THEN <<>> ELSE <<ms[1]>>) \o KeepMissed(Tail(ms), Tail(log))

\* the records of a loaded store with this key
Records(ms, key) == {ms[i] : i \in Positions(ms, key)}

PracticeFinished ==
    pc = "practice_enter" /\ all_mistakes # <<>> /\ ~user_quit_early

PracticeQuit ==
    pc = "practice_enter" /\ all_mistakes # <<>> /\ user_quit_early

InlineReviewReturned == pc = "jlpt_enter" /\ review_choice = "Y"

ReviewReturned == PracticeFinished \/ PracticeQuit \/ InlineReviewReturned

\* C3: after a practice run that was not quit, every remaining mistake has
\* the mistake_count it had before the run
C3_RemainingCountsKept ==
    PracticeFinished =>
        \A i \in 1..Len(remaining_mistakes) :
            \A b \in Records(load_mistakes(mistakes_before), Key(remaining_mistakes[i])) :
                \E a \in Records(load_mistakes(mistake_file), Key(remaining_mistakes[i])) :
                    a.mistake_count = b.mistake_count

\* C4: after an inline review (finished or quit), a session mistake that was
\* cleared has not been written, the remaining ones have, and the records of
\* other keys are unchanged
C4_OnlyRemainingWritten ==
    InlineReviewReturned =>
        LET before == load_mistakes(mistakes_before)
            after == load_mistakes(mistake_file)
        IN  /\ \A i \in 1..Len(mistakes) :
                  Key(mistakes[i]) \notin Keys(remaining_mistakes) =>
                      Records(after, Key(mistakes[i])) = Records(before, Key(mistakes[i]))
            /\ \A i \in 1..Len(remaining_mistakes) :
                  Key(remaining_mistakes[i]) \in Keys(after)
            /\ \A i \in 1..Len(before) :
                  Key(before[i]) \notin Keys(mistakes) =>
                      before[i] \in Records(after, Key(before[i]))

\* C5: a practice run that was quit leaves the Mistake Store as it was
C5_PracticeQuitKeepsStore ==
    PracticeQuit => mistake_file = mistakes_before

\* C5 witness: quit after one mistake was answered correctly
C5_Witness ==
    /\ PracticeQuit
    /\ cleared_mistakes >= 1
    /\ Len(mistake_file) >= 2

\* C6: a practice run that was not quit replaces the store: its keys are the
\* keys of the mistakes answered incorrectly, one record each, and no mistake
\* answered correctly is left
C6_PracticeReplacesStore ==
    PracticeFinished =>
        /\ Keys(mistake_file) = Keys(KeepMissed(all_mistakes, reviewed))
        /\ Len(mistake_file) = Len(KeepMissed(all_mistakes, reviewed))
        /\ \A i \in 1..Len(all_mistakes) :
              reviewed[i] => Key(all_mistakes[i]) \notin Keys(mistake_file)

\* C6 witness: one mistake cleared, one kept
C6_Witness ==
    /\ PracticeFinished
    /\ cleared_mistakes >= 1
    /\ Len(mistake_file) >= 1
    /\ Len(mistakes_before) >= 2

\* C7: a review that is never quit returns quit_early = FALSE, the number of
\* correct answers as cleared count and exactly the missed mistakes, in
\* order and unmodified, as remaining list
C7_ReviewResult ==
    (ReviewReturned /\ Len(reviewed) = Len(mistakes_list)) =>
        /\ ~user_quit_early
        /\ cleared_mistakes = Cardinality({i \in 1..Len(reviewed) : reviewed[i]})
        /\ remaining_mistakes = KeepMissed(mistakes_list, reviewed)
        /\ (\A i \in 1..Len(reviewed) : reviewed[i]) =>
              (cleared_mistakes = Len(mistakes_list) /\ remaining_mistakes = <<>>)

\* C7 witness: a review of several mistakes, some cleared and some missed
C7_Witness ==
    /\ ReviewReturned
    /\ Len(reviewed) = Len(mistakes_list)
    /\ Len(mistakes_list) >= 2
    /\ cleared_mistakes >= 1
    /\ remaining_mistakes # <<>>

\* C8: a review quit at question k returns quit_early = TRUE and a remaining
\* list that holds every mistake at positions k..n and none that was answered
\* correctly before
C8_QuitResult ==
    (ReviewReturned /\ Len(reviewed) < Len(mistakes_list)) =>
        /\ user_quit_early
        /\ \A i \in (Len(reviewed) + 1)..Len(mistakes_list) :
              mistakes_list[i] \in Range(remaining_mistakes)
        /\ \A i \in 1..Len(reviewed) :
              reviewed[i] => mistakes_list[i] \notin Range(remaining_mistakes)

\* C8 witness: quit on the second question after the first was cleared
C8_Witness ==
    /\ ReviewReturned
    /\ user_quit_early
    /\ Len(mistakes_list) >= 2
    /\ reviewed = <<TRUE>>

\* C9: after a finished quiz whose review was declined, every session
\* mistake is in the store, counted 1 if new and once more than before else
C9_DeclinedSavesAll ==
    (pc = "jlpt_enter" /\ review_choice = "N") =>
        LET before == load_mistakes(mistakes_before)
            after == load_mistakes(mistake_file)
        IN  \A i \in 1..Len(mistakes) :
               /\ Cardinality(Positions(after, Key(mistakes[i]))) = 1
               /\ \A a \in Records(after, Key(mistakes[i])) :
                     IF Records(before, Key(mistakes[i])) = {}
                     THEN a.mistake_count = 1
                     ELSE \A b \in Records(before, Key(mistakes[i])) :
                             a.mistake_count = b.mistake_count + 1

\* C9 witness: two session mistakes, one already in the store and one new
C9_Witness ==
    /\ pc = "jlpt_enter"
    /\ review_choice = "N"
    /\ \E i, j \in 1..Len(mistakes) :
          /\ Key(mistakes[i]) \in Keys(mistakes_before)
          /\ Key(mistakes[j]) \notin Keys(mistakes_before)

\* C10: a confirmed quit of a JLPT quiz returns to the menu with the Mistake
\* Store as it was before the quiz and with every entry answered correctly
\* before the quit in the level's mastered set
C10_QuitKeepsMasteryOnly ==
    [][ (pc = "jlpt_confirm" /\ pc' = "menu") =>
            /\ mistake_file' = mistakes_before
            /\ \A i \in 1..Len(answered) :
                  answered[i] => quiz_content[i].Kanji \in progress_file'[level]
      ]_vars

\* C10 witness: the quit is being confirmed after a correct and a wrong answer
C10_Witness ==
    /\ pc = "jlpt_confirm"
    /\ mistakes # <<>>
    /\ score >= 1
    /\ mistakes_before # <<>>

ANSWER_PROMPTS == {"jlpt_answer", "char_answer", "review_answer"}

CONFIRM_PROMPTS == {"jlpt_confirm", "char_confirm", "review_confirm"}

\* the item the session is asking about
AskedItem ==
    IF pc \in {"review_answer", "review_confirm"}
    THEN mistakes_list[rq_no + 1]
    ELSE quiz_content[q_no + 1]

\* C11: in a JLPT quiz, a character quiz and a review, neither the Q step
\* nor the declined confirmation changes the question position, the score,
\* the cleared count, the session mistakes, the remaining list or the two
\* stores, and the item asked after the decline is the item asked before Q
C11_DeclineKeepsQuestion ==
    [][ ((pc \in ANSWER_PROMPTS /\ pc' \in CONFIRM_PROMPTS)
            \/ (pc \in CONFIRM_PROMPTS /\ pc' \in ANSWER_PROMPTS)) =>
            /\ q_no' = q_no
            /\ score' = score
            /\ mistakes' = mistakes
            /\ rq_no' = rq_no
            /\ cleared_mistakes' = cleared_mistakes
            /\ remaining_mistakes' = remaining_mistakes
            /\ mistake_file' = mistake_file
            /\ progress_file' = progress_file
            /\ AskedItem' = AskedItem
      ]_vars

\* C11 witness: the confirmation is pending in a JLPT quiz after a correct
\* and a wrong answer, with questions left
C11_Witness ==
    /\ pc = "jlpt_confirm"
    /\ score >= 1
    /\ mistakes # <<>>
    /\ q_no + 1 < Len(quiz_content)
    /\ mistakes_before = <<>>

\* C12: in every JLPT and character quiz the score is at most the number of
\* questions answered, one answer is recorded per question passed, and a
\* score of QUIZ_LEN means that QUIZ_LEN answers were given, all correct
C12_ScoreBounded ==
    /\ score <= Len(answered)
    /\ Len(answered) = q_no
    /\ score = QUIZ_LEN =>
          /\ Len(answered) = QUIZ_LEN
          /\ \A i \in 1..Len(answered) : answered[i]

\* C12 witness: a character quiz ended with one question missed
C12_Witness ==
    /\ pc = "char_enter"
    /\ Len(answered) = QUIZ_LEN
    /\ score = QUIZ_LEN - 1

\* the number of entries of a pool whose answer differs from correct_answer
DifferingEntries(pool, option_type, correct_answer) ==
    Cardinality({i \in 1..Len(pool) : pool[i][option_type] # correct_answer})

C14_ShortPoolAborts ==
    pc = "crashed" => last_return # "ValueError"

\* C15: a load of an absent file returns an empty or default collection:
\* load_mistakes, load_jlpt_vocab and load_characters an empty list,
\* load_mastered_vocabs five empty sets; the mistake and progress loads
\* leave a default file behind; get_mistake_count and load_user_progress
\* raise no fault
C15_AbsentFilesTolerated ==
    /\ (call.op \in {"load_mistakes", "load_jlpt_vocab", "load_characters"}
            /\ call.absent) =>
          (call.result.type = "list" /\ call.result.value = <<>>)
    /\ (call.op = "load_mistakes" /\ call.absent) => MISTAKE_FILE \notin missing
    /\ (call.op = "load_mastered_vocabs" /\ call.absent) =>
          /\ call.result.type = "dict"
          /\ \A lv \in LevelSet : call.result.value[lv] = {}
          /\ PROGRESS_FILE \notin missing
    /\ call.op \in {"get_mistake_count", "load_user_progress"} =>
          call.result.type # "TypeError"

\* C16: every option a JLPT question can show is the Meaning of an entry of
\* the quiz's own sample, and the pool a character question draws its
\* distractors from is the full character pool
C16_DistractorPools ==
    /\ pc = "jlpt_answer" =>
          \A options \in options_for(quiz_content[q_no + 1].Meaning,
                                     distractor_pool, "Meaning") :
             \A i \in 1..Len(options) :
                \E j \in 1..Len(quiz_content) : options[i] = quiz_content[j].Meaning
    /\ pc = "char_answer" => distractor_pool = load_characters

\* C17: add_mastered_vocab(level, kanji) on a kanji already mastered at that
\* level leaves the Progress Store as it was and returns False; on a kanji
\* not yet mastered it adds that kanji to that level, nothing else, and
\* returns True
C17_MasteryIdempotent ==
    call.op = "add_mastered_vocab" =>
        LET before == load_mastered_vocabs(call.before)
            after == load_mastered_vocabs(progress_file)
        IN  IF call.kanji \in before[call.level]
            THEN /\ progress_file = call.before
                 /\ after = before
                 /\ \A lv \in LevelSet :
                       Cardinality(after[lv]) = Cardinality(before[lv])
                 /\ call.result = "False"
            ELSE /\ after = [before EXCEPT ![call.level] = @ \cup {call.kanji}]
                 /\ call.result = "True"

\* C17 witness: the call found the kanji mastered, next to another kanji of
\* the level
C17_Witness ==
    /\ call.op = "add_mastered_vocab"
    /\ call.kanji \in call.before[call.level]
    /\ Cardinality(call.before[call.level]) >= 2

\* C18: whatever the program does other than the reset of main menu 6, the
\* mastered set of every level after the step includes the set before it
C18_MasteryGrows ==
    [][ ~Reset => \A lv \in LevelSet : progress_file[lv] \subseteq progress_file'[lv]
      ]_vars

\* C18 witness: a quiz question on an entry not yet mastered is asked while
\* the level has mastered entries and the Mistake Store has records
C18_Witness ==
    /\ pc = "jlpt_answer"
    /\ progress_file[level] # {}
    /\ quiz_content[q_no + 1].Kanji \notin progress_file[level]
    /\ mistake_file # <<>>

\* C19: right after the reset of main menu 6 the Mistake Store holds no
\* record and the Progress Store holds the five levels, each with an empty
\* mastered set
C19_ResetClearsStores ==
    (pc = "menu" /\ last_return = "reset") =>
        /\ load_mistakes(mistake_file) = <<>>
        /\ DOMAIN progress_file = LevelSet
        /\ \A lv \in LevelSet : load_mastered_vocabs(progress_file)[lv] = {}

\* C19 witness: the reset found records in the Mistake Store
C19_Witness ==
    /\ pc = "menu"
    /\ last_return = "reset"
    /\ Len(mistakes_before) >= 2

\* C20: the step that answers a JLPT question correctly leaves the entry's
\* kanji in the mastered set of the quiz level and adds exactly 1 to the
\* score, before the next question is asked; the step that answers a
\* character question correctly adds exactly 1 to the score and leaves the
\* Progress Store as it was
C20_CorrectCommitted ==
    [][ /\ (pc = "jlpt_answer" /\ answered' = Append(answered, TRUE)) =>
              /\ quiz_content[q_no + 1].Kanji
                    \in load_mastered_vocabs(progress_file')[level]
              /\ score' = score + 1
        /\ (pc = "char_answer" /\ answered' = Append(answered, TRUE)) =>
              /\ score' = score + 1
              /\ progress_file' = progress_file
      ]_vars

\* C20 witness: a character question is asked after a correct and a wrong
\* answer, with entries mastered in an earlier JLPT quiz
C20_Witness ==
    /\ pc = "char_answer"
    /\ score >= 1
    /\ q_no > score
    /\ progress_file["N5"] # {}

\* the session mistakes are the entries a JLPT quiz missed, in order: word,
\* kana and correct answer of the entry, and as user answer a Meaning of the
\* sample other than the correct one
JlptMistakesMatchMisses ==
    LET missed == KeepMissed(quiz_content, answered)
    IN  /\ Len(mistakes) = Len(missed)
        /\ \A i \in 1..Len(mistakes) :
              /\ DOMAIN mistakes[i] = {"word", "kana", "correct_answer", "user_answer"}
              /\ mistakes[i].word = missed[i].Kanji
              /\ mistakes[i].kana = missed[i].Kana
              /\ mistakes[i].correct_answer = missed[i].Meaning
              /\ mistakes[i].user_answer # missed[i].Meaning
              /\ \E j \in 1..Len(quiz_content) :
                    mistakes[i].user_answer = quiz_content[j].Meaning

Triples(user_mistakes) ==
    {<<user_mistakes[i].word, user_mistakes[i].kana, user_mistakes[i].mistake_count>> :
        i \in 1..Len(user_mistakes)}

\* C24: the file add_mistake has written, read back by load_mistakes, gives
\* the (word, kana, mistake_count) triples of the list that was written,
\* each mistake_count as the same integer
C24_StoreRoundTrip ==
    call.op = "add_mistake" =>
        /\ Triples(load_mistakes(mistake_file)) =
              Triples(add_mistake_rows(mistakes_before, call.word, call.kana,
                                       call.correct_answer, call.user_answer, now))
        /\ \A i \in 1..Len(mistake_file) :
              load_mistakes(mistake_file)[i].mistake_count \in Nat \ {0}

\* C24 witness: a file with a mistake_count of two digits and another of
\* one digit has been written
C24_Witness ==
    /\ call.op = "add_mistake"
    /\ \E i, j \in 1..Len(mistake_file) :
          /\ Len(mistake_file[i].mistake_count) = 2
          /\ load_mistakes(mistake_file)[i].mistake_count >= 10
          /\ Len(mistake_file[j].mistake_count) = 1

\* C27 as claimed: remove_mistake returns True exactly when a record with
\* the word was in the Mistake Store; afterwards no record with the word
\* remains and the other records are unchanged
C27_RemoveReportsRemoval ==
    call.op = "remove_mistake" =>
        LET before == load_mistakes(mistakes_before)
            had == \E i \in 1..Len(before) : before[i].word = call.word
        IN  /\ (call.result = "True") <=> had
            /\ call.result \in {"True", "False"}
            /\ \A i \in 1..Len(mistake_file) : mistake_file[i].word # call.word
            /\ load_mistakes(mistake_file) =
                  SelectSeq(before, LAMBDA m : m.word # call.word)

\* two characters that are the same letter in either case, or the same
\* character
SameLetter(a, b) ==
    \/ a = b
    \/ \E k \in 1..Len(LOWERCASE) : {a, b} = {LOWERCASE[k], UPPERCASE[k]}

\* the line is the option text, in any mix of cases, between whitespace
Accepts(line, option) ==
    \E a, b \in 0..Len(line) :
        /\ a + Len(option) + b = Len(line)
        /\ \A i \in 1..a : line[i] \in WHITESPACE
        /\ \A i \in (Len(line) - b + 1)..Len(line) : line[i] \in WHITESPACE
        /\ \A i \in 1..Len(option) : SameLetter(line[a + i], option[i])

\* the text of a valid option as the menus print it
OptionText(valid_options, k) ==
    IF valid_options.items_are = "int"
    THEN <<DIGITS[valid_options.items[k] + 1]>>
    ELSE valid_options.items[k]

\* C23: get_user_choice returns exactly when the line read is a valid
\* option between whitespace in either case, and then returns that option
\* in capitals; on any other line it blocks on input() again; neither store
\* is touched
C23_ChoiceValidated ==
    (call.op = "get_user_choice" /\ call.read) =>
        LET valid_options == call.valid_options
            matching == {k \in 1..Len(valid_options.items) :
                            Accepts(call.line, OptionText(valid_options, k))}
        IN  /\ call.returned <=> matching # {}
            /\ call.returned =>
                  /\ pc = "choice_returned"
                  /\ \E k \in matching : call.choice = OptionText(valid_options, k)
                  /\ \A i \in 1..Len(call.choice) :
                        call.choice[i] \notin Range(LOWERCASE)
            /\ ~call.returned => pc = "choice_input"
            /\ mistake_file = reset_mistakes
            /\ progress_file = create_progress_file

\* C23 witness: a lower-case answer typed between blanks has been returned
\* in capitals
C23_Witness ==
    /\ pc = "choice_returned"
    /\ call.line = <<" ", "a", " ">>
    /\ call.choice = <<"A">>

\* C25: a quiz holds QUIZ_LEN different items of its pool; the number of the
\* question asked is the number of answers given, so the items are passed
\* one by one in sample order; questions are asked while fewer than QUIZ_LEN
\* answers were given, and the summary comes after exactly QUIZ_LEN answers
\* with the number of correct answers as score.  In a JLPT quiz the i-th
\* answer is about the i-th item: a hit has mastered its kanji, the misses
\* are the words of the session mistakes.
C25_TenQuestionsInOrder ==
    LET jlpt == {"jlpt_answer", "jlpt_confirm", "jlpt_review_offer", "jlpt_enter"}
        character == {"char_answer", "char_confirm", "char_enter"}
        asking == {"jlpt_answer", "jlpt_confirm", "char_answer", "char_confirm"}
        summary == {"jlpt_review_offer", "jlpt_enter", "char_enter"}
        pool == IF pc \in character THEN load_characters ELSE load_jlpt_vocab(level)
        missed == KeepMissed(quiz_content, answered)
    IN  pc \in jlpt \cup character =>
          /\ Len(quiz_content) = QUIZ_LEN
          /\ \A i, j \in 1..Len(quiz_content) :
                i # j => quiz_content[i] # quiz_content[j]
          /\ \A i \in 1..Len(quiz_content) : quiz_content[i] \in Range(pool)
          /\ q_no = Len(answered)
          /\ pc \in asking => q_no < QUIZ_LEN
          /\ pc \in summary =>
                /\ q_no = QUIZ_LEN
                /\ score = Cardinality({i \in 1..Len(answered) : answered[i]})
          /\ pc \in jlpt =>
                /\ \A i \in 1..Len(answered) :
                      answered[i] => quiz_content[i].Kanji \in progress_file[level]
                /\ {mistakes[i].word : i \in 1..Len(mistakes)} =
                      {missed[i].Kanji : i \in 1..Len(missed)}

\* C25 witness: the summary of a JLPT quiz in which two of the QUIZ_LEN
\* questions were missed
C25_Witness ==
    /\ pc = "jlpt_review_offer"
    /\ Len(answered) = QUIZ_LEN
    /\ score = QUIZ_LEN - 2

\* C26 as claimed: when a quit of a JLPT quiz is confirmed the Progress
\* Store is what it was when the quiz started
C26_QuitSavesNoProgress ==
    [][(pc = "jlpt_confirm" /\ pc' = "menu") => progress_file' = progress_before]_vars

\* C28: when run_mistake_review returns, at the end or on a quit, the
\* cleared count and the remaining mistakes add up to the mistakes given,
\* no mistake remains twice, and every remaining mistake was given
C28_ReviewPartitions ==
    ReviewReturned =>
        /\ cleared_mistakes + Len(remaining_mistakes) = Len(mistakes_list)
        /\ \A i, j \in 1..Len(remaining_mistakes) :
              i # j => Key(remaining_mistakes[i]) # Key(remaining_mistakes[j])
        /\ \A i \in 1..Len(remaining_mistakes) :
              remaining_mistakes[i] \in Range(mistakes_list)

\* C28 witness: a review of two mistakes was quit at the second question
\* after the first was missed again
C28_Witness ==
    /\ ReviewReturned
    /\ user_quit_early
    /\ reviewed = <<FALSE>>
    /\ Len(remaining_mistakes) = 2

C29_AnswerIndexInRange ==
    call.op \in {"jlpt_answer", "review_answer"} =>
        /\ Len(call.options) = 4
        /\ call.choice_index < Len(call.options)
        /\ call.outcome.user_answer # INDEX_ERROR

\* C31: add_mistake(word, kana, ..) leaves every record of another key as it
\* was in all six fields and every record at its place, a new record coming
\* last; add_mastered_vocab(level, kanji) leaves the mastered set of every
\* other level as it was
C31_OtherRecordsUntouched ==
    /\ call.op = "add_mistake" =>
          LET key == <<call.word, call.kana>>
          IN  /\ Len(mistake_file) \in {Len(mistakes_before), Len(mistakes_before) + 1}
              /\ \A i \in 1..Len(mistakes_before) :
                    /\ Key(mistake_file[i]) = Key(mistakes_before[i])
                    /\ Key(mistakes_before[i]) # key =>
                          /\ mistake_file[i] = mistakes_before[i]
                          /\ DOMAIN mistake_file[i] =
                                {"word", "kana", "correct_answer", "user_answer",
                                 "mistake_count", "last_mistake_date"}
              /\ Len(mistake_file) = Len(mistakes_before) + 1 =>
                    /\ Key(mistake_file[Len(mistake_file)]) = key
                    /\ Positions(mistakes_before, key) = {}
    /\ call.op = "add_mastered_vocab" =>
          \A lv \in LevelSet \ {call.level} :
              /\ progress_file[lv] = call.before[lv]
              /\ load_mastered_vocabs(progress_file)[lv] =
                    load_mastered_vocabs(call.before)[lv]

\* C31 witness: a kanji was added to a level while another level had
\* mastered kanji, after the last add_mistake had appended a record behind
\* a record of another key that carries an earlier date
C31_Witness ==
    /\ call.op = "add_mastered_vocab"
    /\ call.result = "True"
    /\ \E lv \in LevelSet \ {call.level} : call.before[lv] # {}
    /\ mistakes_before # <<>>
    /\ Len(mistake_file) = Len(mistakes_before) + 1
    /\ mistake_file[1].last_mistake_date # mistake_file[Len(mistake_file)].last_mistake_date

\* the kanji of a level's vocabulary pool
PoolKanji(lv) == {load_jlpt_vocab(lv)[i].Kanji : i \in 1..Len(load_jlpt_vocab(lv))}

\* C22: every kanji of a level's mastered set is the Kanji of an entry of
\* that level's pool, so the mastered count never exceeds the number of
\* distinct kanji of the level
C22_MasteredInPool ==
    \A lv \in LevelSet :
        /\ load_mastered_vocabs(progress_file)[lv] \subseteq PoolKanji(lv)
        /\ Cardinality(load_mastered_vocabs(progress_file)[lv])
              <= Cardinality(PoolKanji(lv))

\* C22 witness: quizzes on two different samples have mastered more than
\* QUIZ_LEN entries of a level
C22_Witness ==
    /\ pc = "menu"
    /\ Cardinality(progress_file["N5"]) > QUIZ_LEN
====
